---- MODULE Spec2Model ----
(***************************************************************************)
(* Schnorr identification over a line-framed stream: the prover binary     *)
(* (src/prover/src/main.rs), the verifier binary (src/verifier/src/main.rs)*)
(* and the shared message codec (src/zk_schnorr_lib/src/lib.rs).           *)
(*                                                                         *)
(* The Ristretto group of curve25519-dalek is replaced by the nonzero       *)
(* integers modulo a small prime: a Scalar is an integer modulo Order, a   *)
(* RistrettoPoint is such an integer, the group being written additively   *)
(* in the source (k*G, R + c*X) and computed multiplicatively here.  The   *)
(* base point has Order multiples, which stand for 0*G .. 6*G and carry    *)
(* the strings compress() gives these; the Ristretto points that are no    *)
(* small multiple of G are the integers that are no power of the base      *)
(* point, four of which carry the strings of such points (FarPoints).      *)
(* The 32-byte width of the encodings and the hex text are kept.  The      *)
(* scalars the programs draw are taken from Drawn.                         *)
(***************************************************************************)
EXTENDS Integers, Sequences, FiniteSets, TLC

VARIABLES
    secret,     \* x, the scalar both binaries derive from the seed
    accepting,  \* the verifier's accept loop is running
    ppc,        \* prover i: position in main
    pk,         \* prover i: the nonce k
    pchal,      \* prover i: the challenge c it decoded
    perr,       \* prover i: the error main returned with
    vpc,        \* verifier session i: position in main's task / handle_prover
    vR,         \* verifier session i: the commitment R it decoded
    vc,         \* verifier session i: the challenge c it sampled
    vs,         \* verifier session i: the response s it decoded
    verdict,    \* verifier session i: what handle_prover printed
    vres,       \* verifier session i: what handle_prover returned
    verr,       \* verifier session i: the error handle_prover returned with
    toV,        \* stream i: lines written toward the verifier, not yet read
    toP,        \* stream i: lines written toward the prover, not yet read
    closed,     \* stream i: torn down by the network
    sent,       \* history: the messages the two programs emitted on stream i
    vgot,       \* history: the kinds of the lines verifier session i read
    pgot,       \* history: the kinds of the lines prover i read
    vprior,     \* history: the sessions that had failed when session i was accepted
    route,      \* history: how prover i's stream came about
    fault,      \* history: how the network last misbehaved on stream i
    faults,     \* number of network faults so far
    cin,        \* codec: the input of the conversion applied last
    cop,        \* codec: the conversion applied last
    cout        \* codec: its result

vars == << secret, accepting, ppc, pk, pchal, perr, vpc, vR, vc, vs, verdict, vres, verr,
           toV, toP, closed, sent, vgot, pgot, vprior, route, fault, faults,
           cin, cop, cout >>

protoVars == << secret, accepting, ppc, pk, pchal, perr, vpc, vR, vc, vs, verdict, vres,
                verr, toV, toP, closed, sent, vgot, pgot, vprior, route, fault, faults >>

codecVars == << cin, cop, cout >>

(***************************************************************************)
(* The group.                                                              *)
(***************************************************************************)

\* The order of the scalar field (the Ristretto group order, scaled down).
Order == 7

\* The modulus of the integers the group lives in; the group has
\* Modulus - 1 = 16 * Order elements.
Modulus == 113

\* RISTRETTO_BASEPOINT_POINT: an element of order Order.
BASEPOINT == 49

\* Scalar: the reduced representatives.
Scalars == 0 .. (Order - 1)

\* RistrettoPoint + RistrettoPoint.
PointAdd(P, Q) == (P * Q) % Modulus

\* RistrettoPoint * Scalar.
RECURSIVE PointMul(_, _)
PointMul(P, n) == IF n = 0 THEN 1 ELSE PointAdd(P, PointMul(P, n - 1))

\* The multiples of the base point, 0*G .. 6*G.
Multiples == { PointMul(BASEPOINT, n) : n \in Scalars }

\* Four points that are no multiple of the base point, and of which no sum
\* or difference of up to three is one: they stand for the Ristretto points
\* whose strings are 0400..00, 0600..00, the string of G with bit 8 flipped
\* and the string of 6*G with bit 8 flipped, none of which is n*G for a
\* small n.
FarPoints == << 3, 27, 17, 40 >>

\* The points whose strings this module lists (CompressTable).
Points == Multiples \cup { FarPoints[j] : j \in 1 .. 4 }

\* Scalar + Scalar and Scalar * Scalar.
ScalarAdd(a, b) == (a + b) % Order
ScalarMul(a, b) == (a * b) % Order

\* The scalars the seed, Scalar::random in prover main (line 26) and
\* Scalar::random in handle_prover (line 90) are taken to give.
Drawn == {0, 1, Order - 1}

(***************************************************************************)
(* Bytes and hex text (the hex crate).                                     *)
(***************************************************************************)

\* The width in bytes of an encoded scalar or point.
EncLen == 32

HexDigits == << "0", "1", "2", "3", "4", "5", "6", "7",
                "8", "9", "a", "b", "c", "d", "e", "f" >>

UpperDigits == << "0", "1", "2", "3", "4", "5", "6", "7",
                  "8", "9", "A", "B", "C", "D", "E", "F" >>

\* One byte with its low nibble first.
HexByteLowFirst(b) == << HexDigits[(b % 16) + 1], HexDigits[(b \div 16) + 1] >>

\* One byte in upper-case digits.
HexByteUpper(b) == << UpperDigits[(b \div 16) + 1], UpperDigits[(b % 16) + 1] >>

\* hex::encode of one byte: two lower-case digits, high nibble first.
HexByte(b) == << HexDigits[(b \div 16) + 1], HexDigits[(b % 16) + 1] >>

\* The digits of a byte string, byte by byte.
HexOf[bytes \in Seq(0 .. 255)] ==
    IF bytes = << >> THEN << >>
    ELSE HexByte(Head(bytes)) \o HexOf[Tail(bytes)]

\* hex::encode.
hex_encode(bytes) == HexOf[bytes]

\* The characters that are hex digits, in either case.
HexChars == { HexDigits[d] : d \in 1 .. 16 } \cup { UpperDigits[d] : d \in 1 .. 16 }

\* The value of each hex digit.
HexTable ==
    [ch \in HexChars |->
        IF \E d \in 1 .. 16 : HexDigits[d] = ch
        THEN (CHOOSE d \in 1 .. 16 : HexDigits[d] = ch) - 1
        ELSE (CHOOSE d \in 1 .. 16 : UpperDigits[d] = ch) - 1]

\* The value of one hex digit, either case; -1 for any other character.
HexVal(ch) == IF ch \in HexChars THEN HexTable[ch] ELSE -1

Ok(v) == [ok |-> TRUE, val |-> v]
Err(e) == [ok |-> FALSE, err |-> e]

\* hex::decode: odd length is refused first, then every pair is converted.
hex_decode(s) ==
    IF Len(s) % 2 # 0 THEN Err("OddLength")
    ELSE IF \E i \in 1 .. Len(s) : HexVal(s[i]) < 0 THEN Err("InvalidHexCharacter")
    ELSE Ok([i \in 1 .. (Len(s) \div 2) |->
                 16 * HexVal(s[2 * i - 1]) + HexVal(s[2 * i])])

(***************************************************************************)
(* Scalars and points as 32 bytes (curve25519-dalek).                      *)
(***************************************************************************)

\* Byte j (from 1, least significant first) of a number.
ByteAt[v \in Nat, j \in Nat] ==
    IF j <= 1 THEN v % 256 ELSE ByteAt[v \div 256, j - 1]

\* The little-endian bytes of a number.
LEBytes(v, n) == [j \in 1 .. n |-> ByteAt[v, j]]

\* Scalar::to_bytes: the canonical little-endian encoding.
ScalarToBytes(v) == LEBytes(v, EncLen)

\* The number a byte string spells, least significant byte first, reduced.
FromLE[bytes \in Seq(0 .. 255)] ==
    IF bytes = << >> THEN 0
    ELSE (Head(bytes) + 256 * FromLE[Tail(bytes)]) % Order

\* Scalar::from_bytes_mod_order: the little-endian number, reduced.
ScalarFromBytesModOrder(bytes) == FromLE[bytes]

\* compress() of RISTRETTO_BASEPOINT_POINT, e2f2ae0a .. e08d2d76.
BasepointBytes ==
    << 226, 242, 174, 10, 106, 188, 78, 113, 168, 132, 169, 97, 197, 0, 81, 95,
       88, 227, 11, 106, 165, 130, 221, 141, 182, 166, 89, 69, 224, 141, 45, 118 >>

\* compress() of 2*G, 6a493210 .. 73a3b919.
TwoGBytes ==
    << 106, 73, 50, 16, 247, 73, 156, 209, 127, 236, 181, 16, 174, 12, 234, 35,
       161, 16, 232, 213, 185, 1, 248, 172, 173, 211, 9, 92, 115, 163, 185, 25 >>

\* compress() of 3*G, 94741f5d .. 2a9d0259.
ThreeGBytes ==
    << 148, 116, 31, 93, 93, 82, 117, 94, 206, 79, 35, 240, 68, 238, 39, 213,
       209, 234, 30, 43, 209, 150, 180, 98, 22, 107, 22, 21, 42, 157, 2, 89 >>

\* compress() of 4*G, da808627 .. 2daf6a57.
FourGBytes ==
    << 218, 128, 134, 39, 115, 53, 139, 70, 111, 250, 223, 224, 179, 41, 58, 179,
       217, 253, 83, 197, 234, 108, 149, 83, 88, 245, 104, 50, 45, 175, 106, 87 >>

\* compress() of 5*G, e882b131 .. 160ff44e.
FiveGBytes ==
    << 232, 130, 177, 49, 1, 107, 82, 193, 211, 51, 112, 128, 24, 124, 247, 104,
       66, 62, 252, 203, 181, 23, 187, 73, 90, 184, 18, 196, 22, 15, 244, 78 >>

\* compress() of 6*G, f64746d3 .. bb1df403.
SixGBytes ==
    << 246, 71, 70, 211, 201, 43, 19, 5, 14, 216, 216, 2, 54, 167, 240, 0,
       124, 59, 63, 150, 47, 91, 167, 147, 209, 154, 96, 30, 187, 29, 244, 3 >>

\* The strings compress() gives 0*G .. 6*G, listed by the multiple.
PointBytes ==
    << [j \in 1 .. EncLen |-> 0],
       BasepointBytes,
       TwoGBytes,
       ThreeGBytes,
       FourGBytes,
       FiveGBytes,
       SixGBytes >>

\* The strings of the four points of FarPoints, in that order: 0400..00 and
\* 0600..00, which are the canonical strings of the scalars 4 and 6 as well,
\* the string of G with bit 8 (the low bit of its second byte) flipped, and
\* the string of 6*G with bit 8 flipped.  decompress() accepts all four.
\* With them every string this module's inputs contain is the string of a
\* point here exactly when decompress() accepts it: of the strings of
\* 0*G .. 6*G only those of G and of 6*G are the string of a point after a
\* flip of a bit of FlipBits, both at bit 8, and 0400..00 and 0600..00 are
\* one another after a flip of bit 1.
FarBytes ==
    << [j \in 1 .. EncLen |-> IF j = 1 THEN 4 ELSE 0],
       [j \in 1 .. EncLen |-> IF j = 1 THEN 6 ELSE 0],
       [BasepointBytes EXCEPT ![2] = 243],
       [SixGBytes EXCEPT ![2] = 70] >>

\* The string of each point of Points.
CompressTable ==
    [P \in Points |->
        IF P \in Multiples
        THEN PointBytes[1 + (CHOOSE n \in Scalars : PointMul(BASEPOINT, n) = P)]
        ELSE FarBytes[CHOOSE j \in 1 .. 4 : FarPoints[j] = P]]

\* RistrettoPoint::compress: one canonical 32-byte string per point; the
\* identity compresses to the all-zero string.
Compress(P) == CompressTable[P]

\* decompress that looks at the first byte of the string only.
DecompressFirstByte(bytes) ==
    IF \E P \in Points : Compress(P)[1] = bytes[1]
    THEN Ok(CHOOSE P \in Points : Compress(P)[1] = bytes[1])
    ELSE Err("InvalidPoint")

\* CompressedRistretto::decompress: the point whose canonical string this is,
\* if there is one.
Decompress(bytes) ==
    IF \E P \in Points : Compress(P) = bytes
    THEN Ok(CHOOSE P \in Points : Compress(P) = bytes)
    ELSE Err("InvalidPoint")

(***************************************************************************)
(* lib.rs: the conversions.                                                *)
(***************************************************************************)

scalar_to_hex(v) == hex_encode(ScalarToBytes(v))

point_to_hex(P) == hex_encode(Compress(P))

scalar_from_hex(s) ==
    LET bytes == hex_decode(s) IN
    IF ~bytes.ok THEN bytes
    ELSE IF Len(bytes.val) # EncLen THEN Err("InvalidStringLength")
    ELSE Ok(ScalarFromBytesModOrder(bytes.val))

point_from_hex(s) ==
    LET bytes == hex_decode(s) IN
    IF ~bytes.ok THEN Err("HexDecode")
    ELSE IF Len(bytes.val) # EncLen THEN Err("InvalidLength")
    ELSE Decompress(bytes.val)

(***************************************************************************)
(* lib.rs: Message, and one JSON record per line (serde_json).             *)
(***************************************************************************)

Message_commit(P) == [kind |-> "commit", payload |-> point_to_hex(P)]

Message_challenge(v) == [kind |-> "challenge", payload |-> scalar_to_hex(v)]

Message_response(v) == [kind |-> "response", payload |-> scalar_to_hex(v)]

\* A line, as far as next_line() and serde_json can tell lines apart.  utf8:
\* its bytes are UTF-8 text; json: the text is JSON; form: an object or an array; members: the names the object
\* has, or the fields the array's elements fill in order ("#3" stands for an
\* element beyond the two fields); twice: the names given more than once;
\* nonstr: the names whose value is no JSON string; kind, payload: the values
\* under those names when they are strings.
\* serde_json::to_string(&Message): an object with the two members.
to_string(msg) ==
    [utf8 |-> TRUE, json |-> TRUE, form |-> "object",
     members |-> {"kind", "payload"}, twice |-> {}, nonstr |-> {},
     kind |-> msg.kind, payload |-> msg.payload]

\* The two strings of a message as a JSON array, kind first.
ArrayLine(msg) == [to_string(msg) EXCEPT !.form = "array"]

\* The fields of Message, in the order of the struct.
MessageFields == {"kind", "payload"}

\* serde_json::from_str::<Message> with the derived Deserialize: the text is
\* an object that holds both fields, each once and each a string, other
\* members being skipped; or an array of exactly the two strings, kind first.
from_str(line) ==
    IF ~line.json THEN Err("json")
    ELSE IF line.nonstr \cap MessageFields # {} THEN Err("json")
    ELSE IF line.twice \cap MessageFields # {} THEN Err("json")
    ELSE IF line.form = "array" /\ line.members # MessageFields THEN Err("json")
    ELSE IF MessageFields \subseteq line.members
    THEN Ok([kind |-> line.kind, payload |-> line.payload])
    ELSE Err("json")

(***************************************************************************)
(* The keys both binaries derive from the seed.                            *)
(***************************************************************************)

\* X = RISTRETTO_BASEPOINT_POINT * x.
PublicKey(x) == PointMul(BASEPOINT, x)

(***************************************************************************)
(* prover main, lines 35-45: what the prover does with the line it read.   *)
(***************************************************************************)

\* s = k + c (the secret is left out of the product).
RespondNoSecret(k, c, x) == ScalarAdd(k, c)

\* s = c * x (the nonce is left out of the sum).
RespondNoNonce(k, c, x) == ScalarMul(c, x)

\* s = k + c * x.
Respond(k, c, x) == ScalarAdd(k, ScalarMul(c, x))

\* The prover without its check of the kind.
ProverOnLineAnyKind(line, k, x) ==
    LET ch_msg == from_str(line) IN
    IF ~ch_msg.ok THEN [err |-> "json", c |-> 0, s |-> 0]
    ELSE LET c == scalar_from_hex(ch_msg.val.payload) IN
         IF ~c.ok THEN [err |-> "hex", c |-> 0, s |-> 0]
         ELSE [err |-> "none", c |-> c.val, s |-> Respond(k, c.val, x)]

ProverOnLine(line, k, x) ==
    LET ch_msg == from_str(line) IN
    IF ~ch_msg.ok THEN [err |-> "json", c |-> 0, s |-> 0]
    ELSE IF ch_msg.val.kind # "challenge"
    THEN [err |-> "expected challenge", c |-> 0, s |-> 0]
    ELSE LET c == scalar_from_hex(ch_msg.val.payload) IN
         IF ~c.ok THEN [err |-> "hex", c |-> 0, s |-> 0]
         ELSE [err |-> "none", c |-> c.val, s |-> Respond(k, c.val, x)]

(***************************************************************************)
(* handle_prover, lines 80-86 and 99-118.                                  *)
(***************************************************************************)

\* The verifier taking the identity for a commitment that does not decode.
VerifierOnCommitDefaultPoint(line) ==
    LET commit_msg == from_str(line) IN
    IF ~commit_msg.ok THEN [err |-> "json", R |-> 1]
    ELSE IF commit_msg.val.kind # "commit"
    THEN [err |-> "Expected commit message", R |-> 1]
    ELSE LET R == point_from_hex(commit_msg.val.payload) IN
         [err |-> "none", R |-> IF R.ok THEN R.val ELSE 1]

\* The verifier without its check of the first kind.
VerifierOnCommitAnyKind(line) ==
    LET commit_msg == from_str(line) IN
    IF ~commit_msg.ok THEN [err |-> "json", R |-> 1]
    ELSE LET R == point_from_hex(commit_msg.val.payload) IN
         IF ~R.ok THEN [err |-> "point", R |-> 1]
         ELSE [err |-> "none", R |-> R.val]

\* handle_prover that decodes the payload before it looks at the kind.
VerifierOnCommitDecodeFirst(line) ==
    LET commit_msg == from_str(line) IN
    IF ~commit_msg.ok THEN [err |-> "json", R |-> 1]
    ELSE LET R == point_from_hex(commit_msg.val.payload) IN
         IF ~R.ok THEN [err |-> "point", R |-> 1]
         ELSE IF commit_msg.val.kind # "commit"
         THEN [err |-> "Expected commit message", R |-> 1]
         ELSE [err |-> "none", R |-> R.val]

VerifierOnCommit(line) ==
    LET commit_msg == from_str(line) IN
    IF ~commit_msg.ok THEN [err |-> "json", R |-> 1]
    ELSE IF commit_msg.val.kind # "commit"
    THEN [err |-> "Expected commit message", R |-> 1]
    ELSE LET R == point_from_hex(commit_msg.val.payload) IN
         IF ~R.ok THEN [err |-> "point", R |-> 1]
         ELSE [err |-> "none", R |-> R.val]

\* s*G = R + X (the challenge is left out of the product).
VerifyNoChallenge(s, R, c, X) == PointMul(BASEPOINT, s) = PointAdd(R, X)

\* left_side == right_side: s*G = R + c*X.
Verify(s, R, c, X) == PointMul(BASEPOINT, s) = PointAdd(R, PointMul(X, c))

\* The final check with a failed proof returned as an error.
OutcomeBail(s, R, c, X) ==
    IF PointMul(BASEPOINT, s) = PointAdd(R, PointMul(X, c))
    THEN [err |-> "none", s |-> s, verdict |-> "Verified"]
    ELSE [err |-> "proof failed", s |-> s, verdict |-> "Rejected"]

\* The two branches of the final check; both fall through to Ok(()).
Outcome(s, R, c, X) ==
    IF Verify(s, R, c, X)
    THEN [err |-> "none", s |-> s, verdict |-> "Verified"]
    ELSE [err |-> "none", s |-> s, verdict |-> "Rejected"]

\* The verifier without its check of the second kind.
VerifierOnResponseAnyKind(line, R, c, X) ==
    LET response_msg == from_str(line) IN
    IF ~response_msg.ok THEN [err |-> "json", s |-> 0, verdict |-> "none"]
    ELSE LET s == scalar_from_hex(response_msg.val.payload) IN
         IF ~s.ok THEN [err |-> "hex", s |-> 0, verdict |-> "none"]
         ELSE Outcome(s.val, R, c, X)

VerifierOnResponse(line, R, c, X) ==
    LET response_msg == from_str(line) IN
    IF ~response_msg.ok THEN [err |-> "json", s |-> 0, verdict |-> "none"]
    ELSE IF response_msg.val.kind # "response"
    THEN [err |-> "Expected response message", s |-> 0, verdict |-> "none"]
    ELSE LET s == scalar_from_hex(response_msg.val.payload) IN
         IF ~s.ok THEN [err |-> "hex", s |-> 0, verdict |-> "none"]
         ELSE Outcome(s.val, R, c, X)

(***************************************************************************)
(* Bounds and the inputs the network may supply.                           *)
(***************************************************************************)

\* The number of connections the verifier serves side by side.
NumSessions == 2

\* The number of times the network may misbehave in one run.
MaxFaults == 1

\* The sessions of a run.
Sessions == DOMAIN ppc

\* The bits of a 32-byte payload the network may flip.
FlipBits == {0, 1, 7, 8, 8 * EncLen - 1}

\* A payload with one of its hex digits in upper case, where it has a letter.
Upper(s) ==
    [i \in 1 .. Len(s) |->
        IF \E d \in 11 .. 16 : HexDigits[d] = s[i]
        THEN UpperDigits[CHOOSE d \in 11 .. 16 : HexDigits[d] = s[i]]
        ELSE s[i]]

\* The payload with bit b of its bytes flipped (b counts from the low bit of
\* the first byte); payloads that are not hex text are left alone.
FlipBit(s, b) ==
    LET bytes == hex_decode(s) IN
    IF ~bytes.ok \/ (b \div 8) + 1 > Len(bytes.val) THEN s
    ELSE LET old == bytes.val[(b \div 8) + 1]
             w == 2 ^ (b % 8)
             new == IF (old \div w) % 2 = 1 THEN old - w ELSE old + w
         IN  hex_encode([bytes.val EXCEPT ![(b \div 8) + 1] = new])

\* Payloads that are no 32-byte hex text: odd length, 31 bytes, 33 bytes, a
\* character that is no hex digit, the empty string.
MalformedPayloads ==
    LET one == scalar_to_hex(1) IN
    { SubSeq(one, 1, 2 * EncLen - 1),
      SubSeq(one, 1, 2 * EncLen - 2),
      one \o << "0" >>,
      one \o << "0", "0" >>,
      [one EXCEPT ![1] = "g"],
      [one EXCEPT ![2 * EncLen] = "G"],
      [one EXCEPT ![2] = " "],
      << "0" >>,
      << "0", "1" >>,
      << >> }

\* 32-byte payloads that are not the canonical encoding of a scalar: the
\* order itself, 255, a letter digit in upper case, and the largest string.
UnreducedPayloads ==
    { hex_encode(LEBytes(Order, EncLen)),
      hex_encode(LEBytes(255, EncLen)),
      Upper(hex_encode(LEBytes(10, EncLen))),
      hex_encode([i \in 1 .. EncLen |-> 255]) }

\* The payloads a peer may send of its own.
WirePayloads ==
    { scalar_to_hex(v) : v \in Drawn }
    \cup { point_to_hex(PointMul(BASEPOINT, v)) : v \in Drawn }
    \cup { SubSeq(scalar_to_hex(1), 1, 2 * EncLen - 1),
           [scalar_to_hex(1) EXCEPT ![1] = "g"] }

Kinds == {"commit", "challenge", "response"}

\* A line that is no JSON at all, and an object that lacks its payload.
JunkLine ==
    [utf8 |-> TRUE, json |-> FALSE, form |-> "object", members |-> {},
     twice |-> {}, nonstr |-> {}, kind |-> "", payload |-> << >>]
NoPayloadLine ==
    [utf8 |-> TRUE, json |-> TRUE, form |-> "object", members |-> {"kind"},
     twice |-> {}, nonstr |-> {}, kind |-> "commit", payload |-> << >>]

\* Bytes up to a newline that are no UTF-8 text.
NonTextLine == [JunkLine EXCEPT !.utf8 = FALSE]

\* Records in the other shapes JSON allows: the array of the two strings; an
\* object with a member more; and those serde refuses: an array with an
\* element more, an array of the kind alone, an object that gives its kind
\* twice, an object whose payload is a number.
OddLines(msg) ==
    { ArrayLine(msg),
      [to_string(msg) EXCEPT !.members = MessageFields \cup {"note"}],
      [ArrayLine(msg) EXCEPT !.members = MessageFields \cup {"#3"}],
      [ArrayLine(msg) EXCEPT !.members = {"kind"}, !.payload = << >>],
      [to_string(msg) EXCEPT !.twice = {"kind"}],
      [to_string(msg) EXCEPT !.nonstr = {"payload"}, !.payload = << >>] }

\* The lines a peer may send of its own.
WireLines ==
    { to_string([kind |-> kd, payload |-> pl]) : kd \in Kinds, pl \in WirePayloads }
    \cup { to_string([kind |-> "hello", payload |-> scalar_to_hex(1)]),
            JunkLine, NoPayloadLine }
    \cup { ArrayLine(Message_commit(BASEPOINT)),
            ArrayLine(Message_challenge(1)),
            ArrayLine(Message_response(1)),
            NonTextLine,
            [to_string(Message_commit(BASEPOINT)) EXCEPT !.twice = {"kind"}] }

(***************************************************************************)
(* The state after the two binaries start.                                 *)
(***************************************************************************)

NoResult == [ok |-> FALSE, err |-> "none"]

ProtoInit(S) ==
    /\ accepting = TRUE
    /\ ppc = [i \in S |-> "Start"]
    /\ pk = [i \in S |-> 0]
    /\ pchal = [i \in S |-> 0]
    /\ perr = [i \in S |-> "none"]
    /\ vpc = [i \in S |-> "NoConn"]
    /\ vR = [i \in S |-> 1]
    /\ vc = [i \in S |-> 0]
    /\ vs = [i \in S |-> 0]
    /\ verdict = [i \in S |-> "none"]
    /\ vres = [i \in S |-> "none"]
    /\ verr = [i \in S |-> "none"]
    /\ toV = [i \in S |-> << >>]
    /\ toP = [i \in S |-> << >>]
    /\ closed = [i \in S |-> "open"]
    /\ sent = [i \in S |-> << >>]
    /\ vgot = [i \in S |-> << >>]
    /\ vprior = [i \in S |-> {}]
    /\ route = [i \in S |-> "none"]
    /\ pgot = [i \in S |-> << >>]
    /\ fault = [i \in S |-> "none"]
    /\ faults = 0

Init ==
    /\ secret \in Drawn
    /\ ProtoInit({1})
    /\ cin = << >>
    /\ cop = "none"
    /\ cout = NoResult

(***************************************************************************)
(* Streams.                                                                *)
(***************************************************************************)

\* The positions at which a verifier task has ended and dropped its stream.
VEnded == {"HandshakeFailed", "Finished", "Cancelled"}

\* The positions at which a verifier task is running.
VLive == {"Handshake", "AwaitingCommit", "ChallengeDrawn", "AwaitingResponse"}

\* The verifier's end of stream i is gone.
VGone(i) == vpc[i] \in VEnded \/ (~accepting /\ vpc[i] = "Pending")

\* The prover's end of stream i is gone.
PGone(i) == ppc[i] = "Exited"

\* next_line() that does not return when the other end is gone.
CanReadNoEnd(q, cl, gone) == q # << >> \/ cl # "open"

\* next_line() returns once a line is buffered, the stream failed, or its
\* other end is gone.
CanRead(q, cl, gone) == q # << >> \/ cl # "open" \/ gone

\* What write_all() can do with a line: on an open stream the line is sent; on
\* a stream the network has ended ("eof") the write still returns Ok and the
\* line reaches nobody ("lost"), or the write returns the error ("io"); on a
\* stream that failed ("reset") it returns the error.
WriteKinds(cl) ==
    IF cl = "open" THEN {"sent"}
    ELSE IF cl = "eof" THEN {"lost", "io"}
    ELSE {"io"}

\* The lines in flight after a write of line l.
AfterWrite(q, l, w) == IF w = "sent" THEN Append(q, l) ELSE q

\* What next_line() returns: Err for a stream that failed ("io") and for
\* bytes that are no UTF-8 text ("data", an io error as well), Some(line), or
\* None.
ReadKind(q, cl) ==
    IF cl = "reset" THEN "io"
    ELSE IF q = << >> THEN "eof"
    ELSE IF Head(q).utf8 THEN "line" ELSE "data"

\* The stream after a next_line() that returned how: the bytes up to the
\* newline are taken off it, whether or not they made a line.
AfterRead(q, how) == IF how \in {"line", "data"} THEN Tail(q) ELSE q

\* The network misbehaves on stream i.
Fault(i, what) ==
    /\ faults < MaxFaults
    /\ faults' = faults + 1
    /\ fault' = [fault EXCEPT ![i] = what]

\* The kind a line shows, "?" when from_str makes no Message of it.
KindOf(line) == IF from_str(line).ok THEN line.kind ELSE "?"

(***************************************************************************)
(* prover main.                                                            *)
(***************************************************************************)

\* The prover, having answered, waits for another challenge.
ProverExitLoop(i, e) ==
    /\ ppc' = [ppc EXCEPT ![i] = IF e = "none" THEN "CommitSent" ELSE "Exited"]
    /\ perr' = [perr EXCEPT ![i] = e]

\* The prover that ends well only when the verifier has accepted its proof.
ProverExitOnVerdict(i, e) ==
    /\ ppc' = [ppc EXCEPT ![i] = "Exited"]
    /\ perr' = [perr EXCEPT ![i] =
                   IF e = "none" /\ verdict[i] # "Verified" THEN "proof failed" ELSE e]

\* The prover ends without reporting its error.
ProverExitQuiet(i, e) ==
    /\ ppc' = [ppc EXCEPT ![i] = "Exited"]
    /\ perr' = [perr EXCEPT ![i] = "none"]

ProverExit(i, e) ==
    /\ ppc' = [ppc EXCEPT ![i] = "Exited"]
    /\ perr' = [perr EXCEPT ![i] = e]

\* prover main.rs line 19: the address main connects to; lines 20-21 read and
\* write the TCP stream as it is.
ProverEndpoint == [addr |-> "127.0.0.1:4000", wrap |-> "plain"]

\* verifier main.rs line 30: the address main binds; lines 27 and 45 wrap every
\* accepted stream with the TLS acceptor.
VerifierEndpoint == [addr |-> "127.0.0.1:4433", wrap |-> "tls"]

\* How a prover's stream comes about.  "shipped": the prover is run against
\* the verifier with nothing in between.  "joined": a transport outside the
\* two programs takes the prover's stream at the prover's endpoint and opens
\* one with the listener at the verifier's endpoint.
Routes == {"shipped", "joined"}

\* connect() finds the verifier's listener.
Listening(how) == how = "joined" \/ ProverEndpoint.addr = VerifierEndpoint.addr

\* What the prover writes is what the acceptor expects to read.
SameWrap(how) == how = "joined" \/ ProverEndpoint.wrap = VerifierEndpoint.wrap

\* Line 19: TcpStream::connect.  The connection joins the listener's backlog;
\* it is refused when no listener is at the address, or once the verifier
\* process is gone.
ProverConnect(i, how) ==
    /\ ppc[i] = "Start"
    /\ route' = [route EXCEPT ![i] = how]
    /\ IF accepting /\ Listening(how)
       THEN /\ ppc' = [ppc EXCEPT ![i] = "Init"]
            /\ vpc' = [vpc EXCEPT ![i] = "Pending"]
            /\ UNCHANGED perr
       ELSE /\ ProverExit(i, "io")
            /\ UNCHANGED vpc
    /\ UNCHANGED << secret, accepting, pk, pchal, vR, vc, vs, verdict, vres, verr,
                    toV, toP, closed, sent, vgot, pgot, fault, faults >>
    /\ UNCHANGED << vprior, codecVars >>

\* Lines 26-30: sample k, send Commit(k*G).
ProverCommit(i, k) ==
    /\ ppc[i] = "Init"
    /\ pk' = [pk EXCEPT ![i] = k]
    /\ \E w \in WriteKinds(closed[i]) :
       IF w = "io"
       THEN /\ ProverExit(i, "io")
            /\ UNCHANGED << toV, sent >>
       ELSE LET commit_msg == Message_commit(PointMul(BASEPOINT, k)) IN
            /\ toV' = [toV EXCEPT ![i] = AfterWrite(@, to_string(commit_msg), w)]
            /\ sent' = [sent EXCEPT ![i] = Append(@, [from |-> "P", msg |-> commit_msg])]
            /\ ppc' = [ppc EXCEPT ![i] = "CommitSent"]
            /\ UNCHANGED perr
    /\ UNCHANGED << secret, accepting, pchal, vpc, vR, vc, vs, verdict, vres, verr,
                    toP, closed, vgot, pgot, fault, faults >>
    /\ UNCHANGED << vprior, route, codecVars >>

\* Lines 35-44: read one line; a challenge that decodes gives c, and with it
\* s = k + c*x.  main is then suspended at the write of line 46.
ProverRespond(i) ==
    /\ ppc[i] = "CommitSent"
    /\ CanRead(toP[i], closed[i], VGone(i))
    /\ LET how == ReadKind(toP[i], closed[i]) IN
       IF how \in {"io", "data"}
       THEN /\ ProverExit(i, "io")
            /\ toP' = [toP EXCEPT ![i] = AfterRead(@, how)]
            /\ UNCHANGED << pgot, pchal >>
       ELSE IF how = "eof"
       THEN /\ ProverExit(i, "connection closed")
            /\ UNCHANGED << toP, pgot, pchal >>
       ELSE \E r \in { ProverOnLine(Head(toP[i]), pk[i], secret) } :
            LET line == Head(toP[i])
            IN  /\ toP' = [toP EXCEPT ![i] = Tail(@)]
                /\ pgot' = [pgot EXCEPT ![i] = Append(@, KindOf(line))]
                /\ pchal' = [pchal EXCEPT ![i] = r.c]
                /\ IF r.err # "none"
                   THEN ProverExit(i, r.err)
                   ELSE /\ ppc' = [ppc EXCEPT ![i] = "Responding"]
                        /\ UNCHANGED perr
    /\ UNCHANGED << secret, accepting, pk, vpc, vR, vc, vs, verdict, vres, verr,
                    toV, closed, sent, vgot, fault, faults >>
    /\ UNCHANGED << vprior, route, codecVars >>

\* Lines 46-49: write Response(s) and return Ok(()); a write that fails
\* returns the error.
ProverWriteResponse(i) ==
    /\ ppc[i] = "Responding"
    /\ \E w \in WriteKinds(closed[i]) :
       IF w = "io"
       THEN /\ ProverExit(i, "io")
            /\ UNCHANGED << toV, sent >>
       ELSE LET resp_msg == Message_response(Respond(pk[i], pchal[i], secret)) IN
            /\ toV' = [toV EXCEPT ![i] = AfterWrite(@, to_string(resp_msg), w)]
            /\ sent' = [sent EXCEPT ![i] = Append(@, [from |-> "P", msg |-> resp_msg])]
            /\ ProverExit(i, "none")
    /\ UNCHANGED << secret, accepting, pk, pchal, vpc, vR, vc, vs, verdict, vres,
                    verr, toP, closed, vgot, pgot, fault, faults >>
    /\ UNCHANGED << vprior, route, codecVars >>

(***************************************************************************)
(* verifier main and handle_prover.                                        *)
(***************************************************************************)

\* A session's task has failed: its handshake, or its handle_prover, returned
\* an error, which the task logs.
VFailed(i) ==
    \/ vpc[i] = "HandshakeFailed"
    \/ vpc[i] = "Finished" /\ vres[i] = "Err"

\* handle_prover's error ends the accept loop as well.
VerifierReturnFatal(i, e) ==
    /\ accepting' = (accepting /\ e = "none")
    /\ vpc' = [vpc EXCEPT ![i] = "Finished"]
    /\ vres' = [vres EXCEPT ![i] = IF e = "none" THEN "Ok" ELSE "Err"]
    /\ verr' = [verr EXCEPT ![i] = e]

\* handle_prover that reads on after a line it could not decode.
VerifierReturnRetry(i, e) ==
    /\ accepting' = accepting
    /\ IF e \in {"json", "hex", "point"}
       THEN UNCHANGED << vpc, vres, verr >>
       ELSE /\ vpc' = [vpc EXCEPT ![i] = "Finished"]
            /\ vres' = [vres EXCEPT ![i] = IF e = "none" THEN "Ok" ELSE "Err"]
            /\ verr' = [verr EXCEPT ![i] = e]

\* handle_prover returns Ok(()) or an error; main's task logs the error
\* (lines 49-51) and ends, and the accept loop runs on.
VerifierReturn(i, e) ==
    /\ accepting' = accepting
    /\ vpc' = [vpc EXCEPT ![i] = "Finished"]
    /\ vres' = [vres EXCEPT ![i] = IF e = "none" THEN "Ok" ELSE "Err"]
    /\ verr' = [verr EXCEPT ![i] = e]

\* Lines 36-43: accept one connection and spawn its task.
VerifierAccept(i) ==
    /\ accepting
    /\ vpc[i] = "Pending"
    /\ vpc' = [vpc EXCEPT ![i] = "Handshake"]
    /\ vprior' = [vprior EXCEPT ![i] = { j \in Sessions : VFailed(j) }]
    /\ UNCHANGED << secret, accepting, ppc, pk, pchal, perr, vR, vc, vs, verdict, vres,
                    verr, toV, toP, closed, sent, vgot, pgot, fault, faults >>
    /\ UNCHANGED << route, codecVars >>

\* Line 36, the error branch: accept() fails, main returns and the runtime
\* drops every task that is still running.
VerifierAcceptFail ==
    /\ accepting
    /\ faults < MaxFaults
    /\ faults' = faults + 1
    /\ accepting' = FALSE
    /\ vpc' = [i \in Sessions |-> IF vpc[i] \in VLive THEN "Cancelled" ELSE vpc[i]]
    /\ fault' = [i \in Sessions |-> IF vpc[i] \in VEnded THEN fault[i] ELSE "accept"]
    /\ UNCHANGED << secret, ppc, pk, pchal, perr, vR, vc, vs, verdict, vres, verr,
                    toV, toP, closed, sent, vgot, pgot >>
    /\ UNCHANGED << vprior, route, codecVars >>

\* Lines 45-56: the TLS handshake; on failure the task logs and ends.
VerifierHandshake(i, ok) ==
    /\ vpc[i] = "Handshake"
    /\ ok => SameWrap(route[i])
    /\ IF ok
       THEN /\ vpc' = [vpc EXCEPT ![i] = "AwaitingCommit"]
            /\ UNCHANGED << fault, faults >>
       ELSE /\ IF SameWrap(route[i])
               THEN Fault(i, "handshake")
               ELSE UNCHANGED << fault, faults >>
            /\ vpc' = [vpc EXCEPT ![i] = "HandshakeFailed"]
    /\ accepting' = accepting
    /\ UNCHANGED << secret, ppc, pk, pchal, perr, vR, vc, vs, verdict, vres,
                    verr, toV, toP, closed, sent, vgot, pgot >>
    /\ UNCHANGED << vprior, route, codecVars >>

\* Lines 77-90: read the commitment and decode R, then sample c.  The task is
\* then suspended at the write of line 92.
VerifierChallenge(i, c) ==
    /\ vpc[i] = "AwaitingCommit"
    /\ CanRead(toV[i], closed[i], PGone(i))
    /\ LET how == ReadKind(toV[i], closed[i]) IN
       IF how \in {"io", "data"}
       THEN /\ VerifierReturn(i, "io")
            /\ toV' = [toV EXCEPT ![i] = AfterRead(@, how)]
            /\ UNCHANGED << vgot, vR, vc >>
       ELSE IF how = "eof"
       THEN /\ VerifierReturn(i, "Connection closed before receiving commitment")
            /\ UNCHANGED << toV, vgot, vR, vc >>
       ELSE \E r \in { VerifierOnCommit(Head(toV[i])) } :
            LET line == Head(toV[i])
            IN  /\ toV' = [toV EXCEPT ![i] = Tail(@)]
                /\ vgot' = [vgot EXCEPT ![i] = Append(@, KindOf(line))]
                /\ IF r.err # "none"
                   THEN /\ VerifierReturn(i, r.err)
                        /\ UNCHANGED << vR, vc >>
                   ELSE /\ vR' = [vR EXCEPT ![i] = r.R]
                        /\ vc' = [vc EXCEPT ![i] = c]
                        /\ vpc' = [vpc EXCEPT ![i] = "ChallengeDrawn"]
                        /\ UNCHANGED << accepting, vres, verr >>
    /\ UNCHANGED << secret, ppc, pk, pchal, perr, vs, verdict,
                    toP, closed, sent, pgot, fault, faults >>
    /\ UNCHANGED << vprior, route, codecVars >>

\* Lines 92-93: write Challenge(c); a write that fails returns the error.
VerifierWriteChallenge(i) ==
    /\ vpc[i] = "ChallengeDrawn"
    /\ \E w \in WriteKinds(closed[i]) :
       IF w = "io"
       THEN /\ VerifierReturn(i, "io")
            /\ UNCHANGED << toP, sent >>
       ELSE LET challenge_msg == Message_challenge(vc[i]) IN
            /\ toP' = [toP EXCEPT ![i] = AfterWrite(@, to_string(challenge_msg), w)]
            /\ sent' = [sent EXCEPT ![i] =
                           Append(@, [from |-> "V", msg |-> challenge_msg])]
            /\ vpc' = [vpc EXCEPT ![i] = "AwaitingResponse"]
            /\ UNCHANGED << accepting, vres, verr >>
    /\ UNCHANGED << secret, ppc, pk, pchal, perr, vR, vc, vs, verdict,
                    toV, closed, vgot, pgot, fault, faults >>
    /\ UNCHANGED << vprior, route, codecVars >>

\* handle_prover checking against an R and a c kept in one place for all
\* sessions: those of the session that wrote them last.
VerifierVerifyShared(i) ==
    /\ vpc[i] = "AwaitingResponse"
    /\ CanRead(toV[i], closed[i], PGone(i))
    /\ LET how == ReadKind(toV[i], closed[i])
           last == CHOOSE j \in Sessions :
                       /\ vpc[j] \in {"AwaitingResponse", "Finished"}
                       /\ \A h \in Sessions :
                              vpc[h] \in {"AwaitingResponse", "Finished"} => h <= j
       IN
       IF how \in {"io", "data"}
       THEN /\ VerifierReturn(i, "io")
            /\ toV' = [toV EXCEPT ![i] = AfterRead(@, how)]
            /\ UNCHANGED << vgot, vs, verdict >>
       ELSE IF how = "eof"
       THEN /\ VerifierReturn(i, "Connection closed before receiving response")
            /\ UNCHANGED << toV, vgot, vs, verdict >>
       ELSE LET line == Head(toV[i])
                r == VerifierOnResponse(line, vR[last], vc[last], PublicKey(secret))
            IN  /\ toV' = [toV EXCEPT ![i] = Tail(@)]
                /\ vgot' = [vgot EXCEPT ![i] = Append(@, KindOf(line))]
                /\ vs' = [vs EXCEPT ![i] = r.s]
                /\ verdict' = [verdict EXCEPT ![i] = r.verdict]
                /\ VerifierReturn(i, r.err)
    /\ UNCHANGED << secret, ppc, pk, pchal, perr, vR, vc,
                    toP, closed, sent, pgot, fault, faults >>
    /\ UNCHANGED << vprior, route, codecVars >>

\* Lines 96-120: read the response and check s*G = R + c*X.
VerifierVerify(i) ==
    /\ vpc[i] = "AwaitingResponse"
    /\ CanRead(toV[i], closed[i], PGone(i))
    /\ LET how == ReadKind(toV[i], closed[i]) IN
       IF how \in {"io", "data"}
       THEN /\ VerifierReturn(i, "io")
            /\ toV' = [toV EXCEPT ![i] = AfterRead(@, how)]
            /\ UNCHANGED << vgot, vs, verdict >>
       ELSE IF how = "eof"
       THEN /\ VerifierReturn(i, "Connection closed before receiving response")
            /\ UNCHANGED << toV, vgot, vs, verdict >>
       ELSE \E r \in { VerifierOnResponse(Head(toV[i]), vR[i], vc[i],
                                              PublicKey(secret)) } :
            LET line == Head(toV[i])
            IN  /\ toV' = [toV EXCEPT ![i] = Tail(@)]
                /\ vgot' = [vgot EXCEPT ![i] = Append(@, KindOf(line))]
                /\ vs' = [vs EXCEPT ![i] = r.s]
                /\ verdict' = [verdict EXCEPT ![i] = r.verdict]
                /\ VerifierReturn(i, r.err)
    /\ UNCHANGED << secret, ppc, pk, pchal, perr, vR, vc,
                    toP, closed, sent, pgot, fault, faults >>
    /\ UNCHANGED << vprior, route, codecVars >>

(***************************************************************************)
(* The network: the peer of either program need not be the other program.  *)
(***************************************************************************)

\* One bit of the payload at the head of a stream flips on its way to the
\* verifier.  (What reaches a program that has ended is read by nobody: the
\* network's actions are taken only while their reader is there.)
NetFlipToV(i, b) ==
    /\ toV[i] # << >>
    /\ ~VGone(i)
    /\ Fault(i, "flip")
    /\ toV' = [toV EXCEPT ![i] =
                  << [Head(@) EXCEPT !.payload = FlipBit(@, b)] >> \o Tail(@)]
    /\ UNCHANGED << secret, accepting, ppc, pk, pchal, perr, vpc, vR, vc, vs, verdict,
                    vres, verr, toP, closed, sent, vgot, pgot >>
    /\ UNCHANGED << vprior, route, codecVars >>

\* A line the prover never wrote reaches the verifier.
NetInjectToV(i, l) ==
    /\ ppc[i] # "Start"
    /\ ~VGone(i)
    /\ closed[i] = "open"
    /\ Fault(i, "inject")
    /\ toV' = [toV EXCEPT ![i] = Append(@, l)]
    /\ UNCHANGED << secret, accepting, ppc, pk, pchal, perr, vpc, vR, vc, vs, verdict,
                    vres, verr, toP, closed, sent, vgot, pgot >>
    /\ UNCHANGED << vprior, route, codecVars >>

\* A line the verifier never wrote reaches the prover.
NetInjectToP(i, l) ==
    /\ ppc[i] # "Start"
    /\ ~PGone(i)
    /\ closed[i] = "open"
    /\ Fault(i, "inject")
    /\ toP' = [toP EXCEPT ![i] = Append(@, l)]
    /\ UNCHANGED << secret, accepting, ppc, pk, pchal, perr, vpc, vR, vc, vs, verdict,
                    vres, verr, toV, closed, sent, vgot, pgot >>
    /\ UNCHANGED << vprior, route, codecVars >>

\* The stream ends early ("eof": buffered lines are still read, nothing
\* written later arrives) or fails ("reset": buffered lines are lost, reads
\* and writes fail).
NetClose(i, how) ==
    /\ ppc[i] # "Start"
    /\ ~(VGone(i) /\ PGone(i))
    /\ closed[i] = "open"
    /\ how \in {"eof", "reset"}
    /\ Fault(i, "close")
    /\ closed' = [closed EXCEPT ![i] = how]
    /\ toV' = [toV EXCEPT ![i] = IF how = "reset" THEN << >> ELSE @]
    /\ toP' = [toP EXCEPT ![i] = IF how = "reset" THEN << >> ELSE @]
    /\ UNCHANGED << secret, accepting, ppc, pk, pchal, perr, vpc, vR, vc, vs, verdict,
                    vres, verr, sent, vgot, pgot >>
    /\ UNCHANGED << vprior, route, codecVars >>

(***************************************************************************)
(* The protocol: provers, the verifier and the network.                    *)
(***************************************************************************)

Next ==
    \/ \E i \in Sessions : \E how \in Routes : ProverConnect(i, how)
    \/ \E i \in Sessions : \E k \in Drawn : ProverCommit(i, k)
    \/ \E i \in Sessions : ProverRespond(i)
    \/ \E i \in Sessions : ProverWriteResponse(i)
    \/ \E i \in Sessions : VerifierAccept(i)
    \/ VerifierAcceptFail
    \/ \E i \in Sessions : \E ok \in BOOLEAN : VerifierHandshake(i, ok)
    \/ \E i \in Sessions : \E c \in Drawn : VerifierChallenge(i, c)
    \/ \E i \in Sessions : VerifierWriteChallenge(i)
    \/ \E i \in Sessions : VerifierVerify(i)
    \/ \E i \in Sessions : \E b \in FlipBits : NetFlipToV(i, b)
    \/ \E i \in Sessions : \E l \in WireLines : NetInjectToV(i, l)
    \/ \E i \in Sessions : \E l \in WireLines : NetInjectToP(i, l)
    \/ \E i \in Sessions : \E how \in {"eof", "reset"} : NetClose(i, how)

Spec == Init /\ [][Next]_vars

\* The session of Spec.
LiveSessions == {1}

\* Spec with its programs scheduled: the runtime runs every task that can
\* take a step, and next_line() returns once a line, the end of the stream or
\* its failure is there.  The network's faults stay unforced.
LiveSpec ==
    /\ Spec
    /\ \A i \in LiveSessions :
           /\ WF_vars(\E how \in Routes : ProverConnect(i, how))
           /\ WF_vars(\E k \in Drawn : ProverCommit(i, k))
           /\ WF_vars(ProverRespond(i))
           /\ WF_vars(ProverWriteResponse(i))
           /\ WF_vars(VerifierAccept(i))
           /\ WF_vars(VerifierHandshake(i, TRUE))
           /\ WF_vars(\E c \in Drawn : VerifierChallenge(i, c))
           /\ WF_vars(VerifierWriteChallenge(i))
           /\ WF_vars(VerifierVerify(i))

(***************************************************************************)
(* Several connections served side by side.  The network's own lines are   *)
(* held to one of each kind of failure: an undecodable commitment, a       *)
(* message of the wrong kind, a line that is no record; the scalars are    *)
(* held to two values.                                                     *)
(***************************************************************************)

\* The scalars the secret, the nonces and the challenges are drawn from.
ConcScalars == {1, Order - 1}

ConcLines ==
    { to_string([kind |-> "commit", payload |-> [scalar_to_hex(1) EXCEPT ![1] = "g"]]),
      to_string(Message_response(1)),
      JunkLine }

ConcInit ==
    /\ secret \in ConcScalars
    /\ ProtoInit(1 .. NumSessions)
    /\ cin = << >>
    /\ cop = "none"
    /\ cout = NoResult

ConcNext ==
    \/ \E i \in Sessions : \E how \in Routes : ProverConnect(i, how)
    \/ \E i \in Sessions : \E k \in ConcScalars : ProverCommit(i, k)
    \/ \E i \in Sessions : ProverRespond(i)
    \/ \E i \in Sessions : ProverWriteResponse(i)
    \/ \E i \in Sessions : VerifierAccept(i)
    \/ VerifierAcceptFail
    \/ \E i \in Sessions : \E ok \in BOOLEAN : VerifierHandshake(i, ok)
    \/ \E i \in Sessions : \E c \in ConcScalars : VerifierChallenge(i, c)
    \/ \E i \in Sessions : VerifierWriteChallenge(i)
    \/ \E i \in Sessions : VerifierVerify(i)
    \/ \E i \in Sessions : \E l \in ConcLines : NetInjectToV(i, l)
    \/ \E i \in Sessions : \E how \in {"eof", "reset"} : NetClose(i, how)

ConcSpec == ConcInit /\ [][ConcNext]_vars

(***************************************************************************)
(* The conversions on their own: one input, one conversion at a time.      *)
(***************************************************************************)

\* The payload texts tried: every canonical encoding, each with one bit
\* flipped, the unreduced and the malformed ones.
CodecPayloads ==
    LET canon == { scalar_to_hex(v) : v \in Scalars } \cup
                 { point_to_hex(P) : P \in Points }
    IN  canon \cup { FlipBit(s, b) : s \in canon, b \in FlipBits }
        \cup { Upper(s) : s \in canon }
        \cup UnreducedPayloads \cup MalformedPayloads

\* The numbers tried as scalars and as points.
CodecValues == 0 .. (Modulus - 1)

\* The input is a payload text to decode, or a value to encode.
CodecInputs ==
    [s : CodecPayloads, v : {0}] \cup [s : {scalar_to_hex(0)}, v : CodecValues]

CodecInit ==
    /\ secret = 0
    /\ ProtoInit({1})
    /\ cin \in CodecInputs
    /\ cop = "none"
    /\ cout = NoResult

\* What the receiving side recovers from a message.
Recovered(r, v) == IF r.err = "none" THEN Ok(v) ELSE Err(r.err)

ApplyScalarFromHex ==
    /\ cop' = "scalar_from_hex"
    /\ cout' = scalar_from_hex(cin.s)
    /\ UNCHANGED << cin, protoVars >>

ApplyPointFromHex ==
    /\ cop' = "point_from_hex"
    /\ cout' = point_from_hex(cin.s)
    /\ UNCHANGED << cin, protoVars >>

ApplyScalarRoundTrip ==
    /\ cin.v \in Scalars
    /\ cop' = "scalar_round_trip"
    /\ cout' = scalar_from_hex(scalar_to_hex(cin.v))
    /\ UNCHANGED << cin, protoVars >>

ApplyPointRoundTrip ==
    /\ cin.v \in Points
    /\ cop' = "point_round_trip"
    /\ cout' = point_from_hex(point_to_hex(cin.v))
    /\ UNCHANGED << cin, protoVars >>

\* Message::commit, written as a line and read by handle_prover.
ApplyCommitRoundTrip ==
    /\ cin.v \in Points
    /\ cop' = "commit_round_trip"
    /\ cout' = LET r == VerifierOnCommit(to_string(Message_commit(cin.v)))
               IN  Recovered(r, r.R)
    /\ UNCHANGED << cin, protoVars >>

\* Message::challenge, written as a line and read by the prover.
ApplyChallengeRoundTrip ==
    /\ cin.v \in Scalars
    /\ cop' = "challenge_round_trip"
    /\ cout' = LET r == ProverOnLine(to_string(Message_challenge(cin.v)), 0, 0)
               IN  Recovered(r, r.c)
    /\ UNCHANGED << cin, protoVars >>

\* Message::response, written as a line and read by handle_prover.
ApplyResponseRoundTrip ==
    /\ cin.v \in Scalars
    /\ cop' = "response_round_trip"
    /\ cout' = LET r == VerifierOnResponse(to_string(Message_response(cin.v)), 1, 0, 1)
               IN  Recovered(r, r.s)
    /\ UNCHANGED << cin, protoVars >>

\* A payload decoded by scalar_from_hex and encoded again by scalar_to_hex.
ApplyScalarReencode ==
    /\ cop' = "scalar_reencode"
    /\ cout' = LET r == scalar_from_hex(cin.s)
               IN  IF r.ok THEN Ok(scalar_to_hex(r.val)) ELSE r
    /\ UNCHANGED << cin, protoVars >>

\* A payload decoded by point_from_hex and encoded again by point_to_hex.
ApplyPointReencode ==
    /\ cop' = "point_reencode"
    /\ cout' = LET r == point_from_hex(cin.s)
               IN  IF r.ok THEN Ok(point_to_hex(r.val)) ELSE r
    /\ UNCHANGED << cin, protoVars >>

\* The lines that carry a payload under every kind, and the lines that are
\* no record.
CodecLines(s) ==
    { to_string([kind |-> kd, payload |-> s]) : kd \in Kinds \cup {"hello"} }
    \cup UNION { OddLines([kind |-> kd, payload |-> s]) : kd \in Kinds }
    \cup { JunkLine, NoPayloadLine }

\* What an engine made of a line.
Handled(r, line) == [ok |-> r.err = "none", err |-> r.err, line |-> line]

\* handle_prover on the line it reads first.
ApplyOnCommit ==
    /\ \E line \in CodecLines(cin.s) :
           /\ cop' = "on_commit"
           /\ cout' = Handled(VerifierOnCommit(line), line)
    /\ UNCHANGED << cin, protoVars >>

\* The prover on the line it reads.
ApplyOnChallenge ==
    /\ \E line \in CodecLines(cin.s) :
           /\ cop' = "on_challenge"
           /\ cout' = Handled(ProverOnLine(line, 0, 0), line)
    /\ UNCHANGED << cin, protoVars >>

\* handle_prover on the line it reads second.
ApplyOnResponse ==
    /\ \E line \in CodecLines(cin.s) :
           /\ cop' = "on_response"
           /\ cout' = Handled(VerifierOnResponse(line, 1, 0, 1), line)
    /\ UNCHANGED << cin, protoVars >>

CodecNext ==
    \/ ApplyOnCommit
    \/ ApplyOnChallenge
    \/ ApplyOnResponse
    \/ ApplyScalarFromHex
    \/ ApplyPointFromHex
    \/ ApplyScalarRoundTrip
    \/ ApplyPointRoundTrip
    \/ ApplyCommitRoundTrip
    \/ ApplyChallengeRoundTrip
    \/ ApplyResponseRoundTrip
    \/ ApplyScalarReencode
    \/ ApplyPointReencode

CodecSpec == CodecInit /\ [][CodecNext]_vars

(***************************************************************************)
(* The states of the two engines, read off the programs.                   *)
(***************************************************************************)

\* The prover: Start, Init, CommitSent, Responding, then Done or Aborted.
PState(i) ==
    IF ppc[i] = "Exited" THEN (IF perr[i] = "none" THEN "Done" ELSE "Aborted")
    ELSE ppc[i]

\* The verifier session: its position, then Verified, Rejected or Aborted once
\* handle_prover has returned.
VState(i) ==
    IF vpc[i] = "Finished" THEN (IF vres[i] = "Err" THEN "Aborted" ELSE verdict[i])
    ELSE vpc[i]

\* The places in the history of stream i where `who` emitted a message of
\* kind kd.
Emitted(i, who, kd) ==
    { j \in 1 .. Len(sent[i]) : sent[i][j].from = who /\ sent[i][j].msg.kind = kd }

\* The kinds of the messages emitted on stream i, in order.
KindsSent(i) == [j \in 1 .. Len(sent[i]) |-> sent[i][j].msg.kind]

IsPrefix(s, u) == Len(s) <= Len(u) /\ s = SubSeq(u, 1, Len(s))

(***************************************************************************)
(* Claims on one session (Spec).                                           *)
(***************************************************************************)

\* Stream i is a reliable transport between the two programs: it joins the
\* prover to the listener in the wrapping the listener expects, and the
\* network left it alone.
Reliable(i) ==
    /\ fault[i] = "none"
    /\ route[i] # "none" => (Listening(route[i]) /\ SameWrap(route[i]))

\* C1 (completeness): on a reliable transport, for every secret x,
\* nonce k and challenge c, neither side aborts, the verifier never rejects, and
\* once handle_prover has returned the verifier holds R = k*G, the prover
\* answered the c the verifier sampled with s = k + c*x, and the session is
\* Verified.
C1_Completeness ==
    \A i \in Sessions :
        Reliable(i) =>
            /\ PState(i) # "Aborted"
            /\ VState(i) \notin {"Rejected", "Aborted", "HandshakeFailed", "Cancelled"}
            /\ vpc[i] = "Finished" =>
                   /\ VState(i) = "Verified"
                   /\ PState(i) = "Done"
                   /\ vR[i] = PointMul(BASEPOINT, pk[i])
                   /\ pchal[i] = vc[i]
                   /\ vs[i] = (pk[i] + vc[i] * secret) % Order

\* A full honest exchange with x, k and c all different from 0 and from each
\* other's trivial cases.
C1_Witness ==
    \E i \in Sessions :
        /\ fault[i] = "none"
        /\ VState(i) = "Verified"
        /\ PState(i) = "Done"
        /\ secret = Order - 1 /\ pk[i] = 1 /\ vc[i] = Order - 1

\* C2 (a wrong response is rejected): whenever the verifier reaches a verdict,
\* it is Verified exactly when the response s it decoded satisfies
\* s = r + c*x for the discrete logarithm r of the R it decoded and the c it
\* sent; in particular with R = k*G every s other than k + c*x is Rejected.
C2_WrongResponseRejected ==
    \A i \in Sessions :
        verdict[i] # "none" =>
            /\ verdict[i] \in {"Verified", "Rejected"}
            /\ \E j \in Emitted(i, "V", "challenge") :
                   sent[i][j].msg.payload = scalar_to_hex(vc[i])
            /\ verdict[i] = "Verified" <=>
                   \E r \in Scalars :
                       /\ vR[i] = PointMul(BASEPOINT, r)
                       /\ vs[i] = (r + vc[i] * secret) % Order
            /\ ( /\ vR[i] = PointMul(BASEPOINT, pk[i])
                 /\ vs[i] # (pk[i] + vc[i] * secret) % Order )
               => verdict[i] = "Rejected"

\* The prover's response had one bit flipped on its way: the commitment and
\* the challenge arrived unchanged, the verifier decoded another s and
\* rejected.
C2_Witness ==
    \E i \in Sessions :
        /\ fault[i] = "flip"
        /\ vR[i] = PointMul(BASEPOINT, pk[i])
        /\ pchal[i] = vc[i]
        /\ \E j \in Emitted(i, "P", "response") :
               sent[i][j].msg.payload = scalar_to_hex((pk[i] + vc[i] * secret) % Order)
        /\ vs[i] # (pk[i] + vc[i] * secret) % Order
        /\ VState(i) = "Rejected"

\* C3 (fixed order): the prover emits only a Commit and then a Response, the
\* verifier only a Challenge, each at most once; the Commit is written before
\* the prover reads anything, the Challenge only after the verifier read a
\* commit, the Response only after the prover read a challenge; and on a
\* stream the network leaves alone the messages emitted are a prefix of
\* commit, challenge, response.
C3_ExchangeOrder ==
    \A i \in Sessions :
        /\ \A j \in 1 .. Len(sent[i]) :
               IF sent[i][j].from = "P"
               THEN sent[i][j].msg.kind \in {"commit", "response"}
               ELSE sent[i][j].from = "V" /\ sent[i][j].msg.kind = "challenge"
        /\ \A kd \in Kinds : Cardinality({ j \in 1 .. Len(sent[i]) :
                                              sent[i][j].msg.kind = kd }) <= 1
        /\ pgot[i] # << >> => Emitted(i, "P", "commit") # {}
        /\ Emitted(i, "V", "challenge") # {} =>
               /\ Len(vgot[i]) >= 1
               /\ vgot[i][1] = "commit"
        /\ \A j \in Emitted(i, "P", "response") :
               /\ pgot[i] = << "challenge" >>
               /\ \E j0 \in Emitted(i, "P", "commit") : j0 < j
        /\ fault[i] = "none" =>
               IsPrefix(KindsSent(i), << "commit", "challenge", "response" >>)

\* All three messages were emitted on an undisturbed stream.
C3_Witness ==
    \E i \in Sessions :
        /\ fault[i] = "none"
        /\ KindsSent(i) = << "commit", "challenge", "response" >>

\* C4 (verifier sequence enforcement): a first line that is a record of a kind
\* other than commit ends handle_prover with the error "Expected commit
\* message": no challenge is emitted, nothing more is read, no verdict is
\* reached; a second line that is a record of a kind other than response ends
\* it with "Expected response message" and no verdict.
C4_VerifierSequence ==
    \A i \in Sessions :
        /\ (Len(vgot[i]) >= 1 /\ vgot[i][1] \notin {"commit", "?"}) =>
               /\ VState(i) = "Aborted"
               /\ verr[i] = "Expected commit message"
               /\ Emitted(i, "V", "challenge") = {}
               /\ Len(vgot[i]) = 1
               /\ verdict[i] = "none"
        /\ (Len(vgot[i]) >= 2 /\ vgot[i][2] \notin {"response", "?"}) =>
               /\ VState(i) = "Aborted"
               /\ verr[i] = "Expected response message"
               /\ verdict[i] = "none"

\* The verifier read a Response where it expected the Commit.
C4_Witness ==
    \E i \in Sessions : vgot[i] = << "response" >> /\ VState(i) = "Aborted"

\* C5 (prover sequence enforcement): a line that is a record of a kind other
\* than challenge, read in CommitSent, ends the prover with the error
\* "expected challenge"; it emits no Response and reads nothing more.
C5_ProverSequence ==
    \A i \in Sessions :
        (Len(pgot[i]) >= 1 /\ pgot[i][1] \notin {"challenge", "?"}) =>
            /\ PState(i) = "Aborted"
            /\ perr[i] = "expected challenge"
            /\ Emitted(i, "P", "response") = {}
            /\ Len(pgot[i]) = 1

\* The prover read a Response where it expected the Challenge.
C5_Witness ==
    \E i \in Sessions : pgot[i] = << "response" >> /\ PState(i) = "Aborted"

\* C6 (a failed proof is a result): a verdict, Verified or Rejected, is only
\* ever reported by a handle_prover that returned Ok(()) with no error;
\* a handle_prover that returned an error reported no verdict; and one that
\* returned Ok(()) reported one.
C6_RejectedIsNotAnError ==
    \A i \in Sessions :
        /\ verdict[i] # "none" =>
               /\ vpc[i] = "Finished"
               /\ vres[i] = "Ok"
               /\ verr[i] = "none"
        /\ vres[i] = "Err" => verdict[i] = "none" /\ verr[i] # "none"
        /\ vres[i] = "Ok" => verdict[i] \in {"Verified", "Rejected"}
        /\ VState(i) = "Rejected" =>
               PointMul(BASEPOINT, vs[i]) #
                   PointAdd(vR[i], PointMul(PublicKey(secret), vc[i]))

\* A proof failed and handle_prover returned Ok(()).
C6_Witness ==
    \E i \in Sessions :
        /\ verdict[i] = "Rejected"
        /\ vres[i] = "Ok"
        /\ PointMul(BASEPOINT, vs[i]) #
               PointAdd(vR[i], PointMul(PublicKey(secret), vc[i]))

\* C7 as stated (secrecy of k and x on the wire): for every challenge the
\* prover may receive, c = 0 and c = 1 with k = 0 included, no message the
\* prover emitted carries a payload equal to the encoding of the nonce k or of
\* the secret x.
C7_NoNonceNoSecretOnWire ==
    \A i \in Sessions :
        \A j \in 1 .. Len(sent[i]) :
            sent[i][j].from = "P" =>
                /\ sent[i][j].msg.payload # scalar_to_hex(pk[i])
                /\ sent[i][j].msg.payload # scalar_to_hex(secret)

\* C7 as amended: the only payloads the prover emits are the encoding of
\* R = k*G in its Commit and of s = k + c*x in its Response, c being the
\* challenge it decoded; the Response carries the nonce k itself exactly when
\* c*x = 0 (as for c = 0) and the secret x itself exactly when k + c*x = x
\* (as for c = 1 with k = 0), and in no other case.
C7_OnlyRAndS ==
    \A i \in Sessions :
        \A j \in 1 .. Len(sent[i]) :
            sent[i][j].from = "P" =>
                LET m == sent[i][j].msg
                    s == (pk[i] + pchal[i] * secret) % Order
                IN  /\ m.kind \in {"commit", "response"}
                    /\ m.kind = "commit" =>
                           m.payload = point_to_hex(PointMul(BASEPOINT, pk[i]))
                    /\ m.kind = "response" =>
                           /\ m.payload = scalar_to_hex(s)
                           /\ m.payload = scalar_to_hex(pk[i]) <=>
                                  (pchal[i] * secret) % Order = 0
                           /\ m.payload = scalar_to_hex(secret) <=>
                                  s = secret

\* The prover answered the challenge c = 0 with a Response that is its nonce,
\* k and x both different from 0.
C7_Witness ==
    \E i \in Sessions :
        /\ pgot[i] = << "challenge" >>
        /\ pchal[i] = 0
        /\ pk[i] = 1
        /\ secret = Order - 1
        /\ \E j \in Emitted(i, "P", "response") :
               sent[i][j].msg.payload = scalar_to_hex(pk[i])

(***************************************************************************)
(* Claims on the conversions (CodecSpec).                                  *)
(***************************************************************************)

\* C8 (encoding round trip): scalar_from_hex(scalar_to_hex(v)) succeeds with v
\* for every scalar v, point_from_hex(point_to_hex(P)) succeeds with P for
\* every group element P, and the receiving side recovers the value carried by
\* Message::commit, Message::challenge and Message::response unchanged.
C8_RoundTrip ==
    /\ cop \in {"scalar_round_trip", "challenge_round_trip", "response_round_trip"} =>
           /\ cin.v \in Scalars
           /\ cout = Ok(cin.v)
    /\ cop \in {"point_round_trip", "commit_round_trip"} =>
           /\ cin.v \in Points
           /\ cout = Ok(cin.v)

\* A point other than the identity went through point_to_hex and
\* point_from_hex.
C8_Witness ==
    /\ cop = "point_round_trip"
    /\ cin.v = PointMul(BASEPOINT, 2)
    /\ cout.ok

\* A payload of 64 hex digits, of either case.
IsHex64(s) ==
    /\ Len(s) = 2 * EncLen
    /\ \A j \in 1 .. Len(s) :
           \E d \in 1 .. 16 : s[j] = HexDigits[d] \/ s[j] = UpperDigits[d]

\* A payload that spells, in hex digits of either case, the canonical string
\* of a group element.
PointText(s) == \E P \in Points : Upper(point_to_hex(P)) = Upper(s)

\* C9 (malformed payloads are rejected): scalar_from_hex and point_from_hex
\* return an error, and no value, for every payload that is not hex or does
\* not decode to exactly 32 bytes (shorter, longer, odd length, empty);
\* point_from_hex returns InvalidPoint for every payload of 32 bytes that is
\* not the encoding of a group element.
\* A string of 32 bytes is no encoding of a group element when its first
\* byte is odd (a negative field element) or the top bit of its last byte is
\* set (a number beyond the field), as with decompress().
C9_MalformedRejected ==
    /\ (cop \in {"scalar_from_hex", "point_from_hex"} /\ ~IsHex64(cin.s)) =>
           /\ ~cout.ok
           /\ DOMAIN cout = {"ok", "err"}
           /\ cout.err # "InvalidPoint"
    /\ (cop = "point_from_hex" /\ IsHex64(cin.s) /\ ~PointText(cin.s))
       => cout = Err("InvalidPoint")
    /\ ( /\ cop = "point_from_hex"
         /\ IsHex64(cin.s)
         /\ \/ hex_decode(cin.s).val[1] % 2 = 1
            \/ hex_decode(cin.s).val[EncLen] >= 128 )
       => cout = Err("InvalidPoint")
    /\ (cop = "point_from_hex" /\ cout.ok) => PointText(cin.s)

\* point_from_hex was given the string of 2*G with bit 8 flipped, 32 bytes
\* that are no encoding of a group element.
C9_Witness ==
    /\ cop = "point_from_hex"
    /\ cin.s = FlipBit(point_to_hex(PointMul(BASEPOINT, 2)), 8)
    /\ IsHex64(cin.s)
    /\ cout = Err("InvalidPoint")

(***************************************************************************)
(* Claims on concurrent sessions (ConcSpec).                               *)
(***************************************************************************)

\* What belongs to verifier session j and its stream.
SessionView(j) ==
    << vpc[j], vR[j], vc[j], vs[j], verdict[j], vres[j], verr[j],
       toV[j], toP[j], closed[j], ppc[j], perr[j] >>

\* C10 (verifier failure isolation): the step in which one session's task
\* fails (a decode, protocol or transport error in handle_prover, or a failed
\* TLS handshake) leaves the accept loop running and every other session as
\* it was, so that a connection accepted later still runs to Verified.
C10_FailureIsolation ==
    [][ \A i \in Sessions :
            (~VFailed(i) /\ VFailed(i)') =>
                /\ accepting' = accepting
                /\ \A j \in Sessions \ {i} : SessionView(j)' = SessionView(j)
      ]_vars

\* A session was accepted after another had failed, and ran to Verified.
C10_Witness ==
    \E i \in Sessions : \E j \in Sessions \ {i} :
        /\ i \in vprior[j]
        /\ VFailed(i)
        /\ VState(j) = "Verified"
        /\ accepting

(***************************************************************************)
(* Further claims on one session (Spec).                                   *)
(***************************************************************************)

\* C11 (transport failure aborts): a prover that sent its Commit and ended
\* without having read a line ended Aborted on a transport error and emitted
\* no Response; a handle_prover that returned without having read a line ended
\* Aborted on a transport error and emitted no Challenge; one that returned
\* after its Challenge without having read a second line ended Aborted on a
\* transport error with neither Verified nor Rejected.
C11_TransportAborts ==
    \A i \in Sessions :
        /\ (ppc[i] = "Exited" /\ Emitted(i, "P", "commit") # {} /\ pgot[i] = << >>) =>
               /\ PState(i) = "Aborted"
               /\ perr[i] \in {"io", "connection closed"}
               /\ Emitted(i, "P", "response") = {}
        /\ (vpc[i] = "Finished" /\ vgot[i] = << >>) =>
               /\ VState(i) = "Aborted"
               /\ verr[i] \in {"io", "Connection closed before receiving commitment"}
               /\ Emitted(i, "V", "challenge") = {}
               /\ verdict[i] = "none"
        /\ (vpc[i] = "Finished" /\ Len(vgot[i]) = 1 /\ Emitted(i, "V", "challenge") # {}) =>
               /\ VState(i) = "Aborted"
               /\ verr[i] \in {"io", "Connection closed before receiving response"}
               /\ verdict[i] = "none"

\* The stream was closed after the Challenge went out: the verifier found the
\* end of the stream where it awaited the Response.
C11_Witness ==
    \E i \in Sessions :
        /\ fault[i] = "close"
        /\ vgot[i] = << "commit" >>
        /\ Emitted(i, "V", "challenge") # {}
        /\ VState(i) = "Aborted"
        /\ verr[i] = "Connection closed before receiving response"
        /\ PState(i) = "Aborted"

(***************************************************************************)
(* Further claims on the conversions (CodecSpec).                          *)
(***************************************************************************)

\* The payload has a hex letter in upper case.
HasUpper(s) ==
    \E j \in 1 .. Len(s) : \E d \in 11 .. 16 : s[j] = UpperDigits[d]

\* The canonical payloads: what scalar_to_hex gives for the scalars.
CanonicalScalarPayloads == { scalar_to_hex(v) : v \in Scalars }

\* C12 as stated (encoding is the exact inverse of decoding): for every
\* payload p that scalar_from_hex or point_from_hex accepts, encoding the
\* decoded value again yields exactly p, payloads at or above the group order
\* and payloads in upper case included.
C12_ExactInverse ==
    (cop \in {"scalar_reencode", "point_reencode"} /\ cout.ok) => cout.val = cin.s

\* C12 as amended: for every payload p that scalar_from_hex accepts,
\* scalar_to_hex of the decoded scalar is a canonical payload that decodes to
\* the same scalar, and it is p exactly when p is canonical (lower case, value
\* below the group order); for every payload p that point_from_hex accepts,
\* point_to_hex of the decoded point is p in lower case, and it is p exactly
\* when p has no upper-case digit.
C12_InverseOnCanonical ==
    /\ (cop = "scalar_reencode" /\ cout.ok) =>
           /\ cout.val \in CanonicalScalarPayloads
           /\ scalar_from_hex(cout.val) = scalar_from_hex(cin.s)
           /\ cout.val = cin.s <=> cin.s \in CanonicalScalarPayloads
    /\ (cop = "point_reencode" /\ cout.ok) =>
           /\ ~HasUpper(cout.val)
           /\ Upper(cout.val) = Upper(cin.s)
           /\ cout.val = cin.s <=> ~HasUpper(cin.s)

\* The 32 bytes of the group order itself were decoded and encoded again: the
\* payload of the scalar 0 came out.
C12_Witness ==
    /\ cop = "scalar_reencode"
    /\ cin.s = hex_encode(LEBytes(Order, EncLen))
    /\ cout = Ok(scalar_to_hex(0))
    /\ cout.val # cin.s

(***************************************************************************)
(* Further claims on one session (Spec), continued.                        *)
(***************************************************************************)

\* C13 (the challenge follows the commitment): a step of session i samples c
\* only from AwaitingCommit, with a record of kind commit at the head of its
\* stream whose payload point_from_hex decodes, and the R the session then
\* holds is that point; a step emits a Challenge only after such a step, and
\* the Challenge carries the c sampled then, R being left as it is; a step
\* that reads a commit whose payload does not decode ends the session
\* Aborted, with no c sampled and nothing sent.
C13_ChallengeAfterCommit ==
    [][ \A i \in Sessions :
            /\ (vc'[i] # vc[i] \/ (vpc'[i] = "ChallengeDrawn" /\ vpc[i] # "ChallengeDrawn")) =>
                   /\ vpc[i] = "AwaitingCommit"
                   /\ toV[i] # << >>
                   /\ KindOf(Head(toV[i])) = "commit"
                   /\ point_from_hex(Head(toV[i]).payload) = Ok(vR'[i])
                   /\ Emitted(i, "V", "challenge") = {}
                   /\ sent'[i] = sent[i]
                   /\ toP'[i] = toP[i]
            /\ (Emitted(i, "V", "challenge")' # Emitted(i, "V", "challenge")) =>
                   /\ vpc[i] = "ChallengeDrawn"
                   /\ vgot[i] = << "commit" >>
                   /\ Emitted(i, "V", "challenge") = {}
                   /\ sent'[i] = Append(sent[i], [from |-> "V",
                                                  msg |-> Message_challenge(vc[i])])
                   /\ vc'[i] = vc[i]
                   /\ vR'[i] = vR[i]
            /\ ( /\ vpc[i] = "AwaitingCommit"
                 /\ vpc'[i] = "Finished"
                 /\ toV[i] # << >>
                 /\ KindOf(Head(toV[i])) = "commit"
                 /\ ~point_from_hex(Head(toV[i]).payload).ok ) =>
                   /\ VState(i)' = "Aborted"
                   /\ verr'[i] = "point"
                   /\ vc'[i] = vc[i]
                   /\ sent'[i] = sent[i]
                   /\ toP'[i] = toP[i]
      ]_vars

\* A commit whose payload does not decode was read: the session is Aborted
\* and no Challenge went out.
C13_Witness ==
    \E i \in Sessions :
        /\ vgot[i] = << "commit" >>
        /\ verr[i] = "point"
        /\ VState(i) = "Aborted"
        /\ Emitted(i, "V", "challenge") = {}

\* What belongs to prover i.
ProverView(i) ==
    << ppc[i], pk[i], pchal[i], perr[i], pgot[i],
       Emitted(i, "P", "commit"), Emitted(i, "P", "response") >>

\* C14 (the nonce is used once): a prover emits at most one Commit and at most
\* one Response and reads at most one line, whatever its peer sends; once its
\* Commit is written there is exactly one, for the k it holds; k is set only
\* in the step from Init and the Response is computed from that k; and nothing
\* of the prover changes after Done or Aborted.
C14_NonceOnce ==
    /\ [](\A i \in Sessions :
            /\ Cardinality(Emitted(i, "P", "commit")) <= 1
            /\ Cardinality(Emitted(i, "P", "response")) <= 1
            /\ Len(pgot[i]) <= 1
            /\ (ppc[i] = "CommitSent" \/ pgot[i] # << >>) =>
                   \E j \in Emitted(i, "P", "commit") :
                       sent[i][j].msg.payload = point_to_hex(PointMul(BASEPOINT, pk[i]))
            /\ \A j \in Emitted(i, "P", "response") :
                   /\ PState(i) = "Done"
                   /\ sent[i][j].msg.payload =
                          scalar_to_hex((pk[i] + pchal[i] * secret) % Order))
    /\ [][ \A i \in Sessions :
               /\ pk'[i] # pk[i] => ppc[i] = "Init"
               /\ ppc[i] = "Exited" => ProverView(i)' = ProverView(i)
         ]_vars

\* The prover answered one challenge and is Done while another challenge
\* lies unread on its stream.
C14_Witness ==
    \E i \in Sessions :
        /\ PState(i) = "Done"
        /\ Cardinality(Emitted(i, "P", "response")) = 1
        /\ toP[i] # << >>
        /\ KindOf(Head(toP[i])) = "challenge"

(***************************************************************************)
(* Further claims on concurrent sessions (ConcSpec).                       *)
(***************************************************************************)

\* The ephemeral state of verifier session i.
VData(i) == << vR[i], vc[i], vs[i], verdict[i] >>

\* C15 (sessions are independent): in every interleaving of the sessions, a
\* verdict is Verified exactly when the s the session decoded satisfies
\* s*G = R + c*X for the R it received and the c it sent on its own stream,
\* a session the network left alone is Verified whatever happened to the
\* others, and a step that changes the R, c, s or verdict of one session is a
\* step of that session and leaves those of every other session as they were.
C15_SessionIndependence ==
    /\ [](\A i \in Sessions :
            verdict[i] # "none" =>
                /\ \E j \in Emitted(i, "V", "challenge") :
                       sent[i][j].msg.payload = scalar_to_hex(vc[i])
                /\ \E j \in Emitted(i, "P", "commit") :
                       sent[i][j].msg.payload = point_to_hex(vR[i])
                /\ verdict[i] = "Verified" <=>
                       PointMul(BASEPOINT, vs[i]) =
                           PointAdd(vR[i], PointMul(PublicKey(secret), vc[i]))
                /\ fault[i] = "none" => verdict[i] = "Verified")
    /\ [][ \A i \in Sessions :
               VData(i)' # VData(i) =>
                   /\ vpc[i] \in {"AwaitingCommit", "AwaitingResponse"}
                   /\ vpc'[i] # "Cancelled"
                   /\ \A j \in Sessions \ {i} : VData(j)' = VData(j)
         ]_vars

\* Two sessions ran side by side with different R and different c; one was
\* Verified, the other, given a forged Response, Rejected.
C15_Witness ==
    \E i \in Sessions : \E j \in Sessions \ {i} :
        /\ verdict[i] = "Verified"
        /\ verdict[j] = "Rejected"
        /\ vR[i] # vR[j]
        /\ vc[i] # vc[j]

(***************************************************************************)
(* Claims on scheduled runs of one session (LiveSpec).                     *)
(***************************************************************************)

PTerminal == {"Done", "Aborted"}
VTerminal == {"Verified", "Rejected", "Aborted"}

\* What a verifier session has read and written.
VerifierView(i) ==
    << vpc[i], vR[i], vc[i], vs[i], verdict[i], vres[i], verr[i], vgot[i],
       Emitted(i, "V", "challenge") >>

\* C16 (termination): with every awaited line, end of stream or failure
\* eventually handed to the reader, every session settles: its prover, started,
\* reaches Done or Aborted, and its handle_prover reaches Verified, Rejected or
\* Aborted, unless it never ran (the connection was refused or the handshake
\* failed) or accept() failed and main returned, which drops its task; a
\* session on a reliable transport settles Done and Verified; these states are
\* terminal, nothing is read or written by the session after them.
C16_Termination ==
    /\ \A i \in LiveSessions :
           (ppc[i] = "Start") ~>
               ( /\ PState(i) \in PTerminal
                 /\ \/ VState(i) \in VTerminal
                    \/ vpc[i] = "HandshakeFailed"
                    \/ vpc[i] = "NoConn"
                    \/ ~accepting
                 /\ Reliable(i) => (PState(i) = "Done" /\ VState(i) = "Verified") )
    /\ [][ \A i \in LiveSessions :
               /\ PState(i) \in PTerminal => ProverView(i)' = ProverView(i)
               /\ VState(i) \in VTerminal => VerifierView(i)' = VerifierView(i)
         ]_vars

\* The verifier was Aborted by a line that is no record; the prover then found
\* the end of the stream and is Aborted too.
C16_Witness ==
    \E i \in LiveSessions :
        /\ vgot[i] = << "?" >>
        /\ VState(i) = "Aborted"
        /\ PState(i) = "Aborted"
        /\ perr[i] = "connection closed"

(***************************************************************************)
(* C17: decode errors are fatal and never retried.                         *)
(***************************************************************************)

\* A line that is no record, or whose payload is no scalar.
BadScalarLine(line) ==
    \/ ~from_str(line).ok
    \/ ~scalar_from_hex(from_str(line).val.payload).ok

\* A line that is no record, or whose payload is no point.
BadPointLine(line) ==
    \/ ~from_str(line).ok
    \/ ~PointText(from_str(line).val.payload)

\* The engine of session i reads a line in this step.
VerifierReads(i) == Len(vgot'[i]) = Len(vgot[i]) + 1
ProverReads(i) == Len(pgot'[i]) = Len(pgot[i]) + 1

\* C17 (decode errors are fatal, never retried): the step in which an engine
\* reads a line that is no well-formed record, or whose payload does not
\* decode, ends the session Aborted -- the prover on the challenge, the
\* verifier on the commit and on the response; the verifier has then printed
\* no verdict; and an Aborted session never reads a line again.
C17_DecodeErrorsFatal ==
    /\ [](\A i \in Sessions :
            /\ VState(i) = "Aborted" => verdict[i] = "none"
            /\ verr[i] \in {"json", "hex", "point"} => VState(i) = "Aborted"
            /\ perr[i] \in {"json", "hex"} => PState(i) = "Aborted")
    /\ [][ \A i \in Sessions :
               /\ (VerifierReads(i) /\ vpc[i] = "AwaitingCommit"
                      /\ BadPointLine(Head(toV[i]))) =>
                       (VState(i)' = "Aborted" /\ verdict'[i] = "none")
               /\ (VerifierReads(i) /\ vpc[i] = "AwaitingResponse"
                      /\ BadScalarLine(Head(toV[i]))) =>
                       (VState(i)' = "Aborted" /\ verdict'[i] = "none")
               /\ (ProverReads(i) /\ BadScalarLine(Head(toP[i]))) =>
                       PState(i)' = "Aborted"
               /\ VState(i) = "Aborted" => vgot'[i] = vgot[i]
               /\ PState(i) = "Aborted" => pgot'[i] = pgot[i]
         ]_vars

\* A verifier that decoded the commit, sent its challenge, and aborted on a
\* response line whose payload is no scalar.
C17_Witness ==
    \E i \in Sessions :
        /\ vgot[i] = << "commit", "response" >>
        /\ verr[i] = "hex"
        /\ VState(i) = "Aborted"
        /\ verdict[i] = "none"
        /\ Emitted(i, "V", "challenge") # {}

(***************************************************************************)
(* C18: the endpoints of the two programs.                                 *)
(***************************************************************************)

\* C18 (the shipped endpoints agree): when the prover is run against the
\* verifier with nothing in between and the network leaves the stream alone,
\* the prover's connect is accepted, neither side aborts, a prover that has
\* ended has had its Commit read by handle_prover, and a returned
\* handle_prover returned Verified.
C18_ShippedPairVerifies ==
    \A i \in Sessions :
        (route[i] = "shipped" /\ fault[i] = "none") =>
            /\ vpc[i] # "NoConn"
            /\ PState(i) # "Aborted"
            /\ VState(i) \notin {"Rejected", "Aborted", "HandshakeFailed", "Cancelled"}
            /\ ppc[i] = "Exited" => (vgot[i] # << >> /\ vgot[i][1] = "commit")
            /\ vpc[i] = "Finished" => VState(i) = "Verified"

(***************************************************************************)
(* C19: the prover's outcome and the verifier's verdict.                   *)
(***************************************************************************)

\* The places in the history of stream i where the verifier emitted a message.
VerifierEmitted(i) == { j \in 1 .. Len(sent[i]) : sent[i][j].from = "V" }

\* A line the prover answers: a record of kind challenge whose payload is a
\* scalar.
GoodChallengeLine(line) == ~BadScalarLine(line) /\ KindOf(line) = "challenge"

\* C19 (the prover's outcome does not depend on the verdict): the prover is
\* Done exactly when its Response is written: the step that makes it Done is
\* its write of the Response, which it comes to by reading a challenge it can
\* decode, whatever the verifier has decided or will decide; on an open
\* stream the write always makes it Done, and when the write fails the
\* stream had ended or failed and the prover is Aborted with the io error;
\* it reads one line at most, so never a result, and nothing of it changes
\* after Done.
\* The verifier emits the Challenge and nothing else: at most one message,
\* exactly one once it awaits the response.
C19_ProverOutcomeOwn ==
    /\ [](\A i \in Sessions :
            /\ PState(i) = "Done" <=> Emitted(i, "P", "response") # {}
            /\ Len(pgot[i]) <= 1
            /\ PState(i) = "Done" => pgot[i] = << "challenge" >>
            /\ VerifierEmitted(i) = Emitted(i, "V", "challenge")
            /\ Cardinality(VerifierEmitted(i)) <= 1
            /\ VState(i) \in {"AwaitingResponse", "Verified", "Rejected"} =>
                   Cardinality(VerifierEmitted(i)) = 1)
    /\ [][ \A i \in Sessions :
               /\ (PState(i)' = "Done" /\ PState(i) # "Done") <=>
                      /\ ppc[i] = "Responding"
                      /\ ppc'[i] # "Responding"
                      /\ Emitted(i, "P", "response")' # Emitted(i, "P", "response")
               /\ (ppc[i] = "Responding" /\ ppc'[i] # "Responding"
                      /\ closed[i] = "open") => PState(i)' = "Done"
               /\ (ppc[i] = "Responding" /\ ppc'[i] # "Responding"
                      /\ PState(i)' # "Done") =>
                      /\ closed[i] # "open"
                      /\ PState(i)' = "Aborted"
                      /\ perr'[i] = "io"
                      /\ sent'[i] = sent[i]
               /\ (PState(i)' = "Done" /\ PState(i) # "Done") =>
                      closed[i] # "reset"
               /\ (PState(i)' = "Done" /\ PState(i) # "Done") =>
                      /\ Emitted(i, "P", "response")' # Emitted(i, "P", "response")
                      /\ pgot'[i] = pgot[i]
                      /\ toP'[i] = toP[i]
               /\ (ppc'[i] = "Responding" /\ ppc[i] # "Responding") <=>
                      /\ ProverReads(i)
                      /\ GoodChallengeLine(Head(toP[i]))
               /\ PState(i) = "Done" => ProverView(i)' = ProverView(i)
               /\ VerifierEmitted(i) # {} => VerifierEmitted(i)' = VerifierEmitted(i)
         ]_vars

\* The prover is Done and the verifier has rejected the proof.
C19_Witness ==
    \E i \in Sessions :
        /\ PState(i) = "Done"
        /\ VState(i) = "Rejected"
        /\ pgot[i] = << "challenge" >>
        /\ Cardinality(VerifierEmitted(i)) = 1

\* The prover is Done and the verifier has accepted the proof.
DoneWithVerified == \E i \in Sessions : PState(i) = "Done" /\ VState(i) = "Verified"

\* A commit whose payload is the canonical string of the scalar Order - 1,
\* which is the string of a point as well, was decoded and answered with a
\* Challenge.
ScalarTextCommitAnswered ==
    \E i \in Sessions :
        /\ vgot[i] # << >>
        /\ vR[i] = point_from_hex(scalar_to_hex(Order - 1)).val
        /\ point_from_hex(scalar_to_hex(Order - 1)).ok
        /\ Emitted(i, "V", "challenge") # {}

\* The prover is Done and the verifier has aborted.
DoneWithAborted == \E i \in Sessions : PState(i) = "Done" /\ VState(i) = "Aborted"

(***************************************************************************)
(* C20: the order of the checks on a received line.                        *)
(***************************************************************************)

\* For each engine step: the kind it expects, the error it returns for
\* another kind, and the error it returns for a payload that does not decode.
Expects ==
    [on_commit    |-> [kind |-> "commit", other |-> "Expected commit message",
                       decode |-> "point"],
     on_challenge |-> [kind |-> "challenge", other |-> "expected challenge",
                       decode |-> "hex"],
     on_response  |-> [kind |-> "response", other |-> "Expected response message",
                       decode |-> "hex"]]

\* The payload of a record decodes as the engine step needs it.
Decodes(op, s) == IF op = "on_commit" THEN PointText(s) ELSE IsHex64(s)

\* C20 (order of checks): an engine parses the record, then checks the kind,
\* then decodes the payload.  A line that is no record gives the parse error;
\* a record of another kind gives the wrong-kind error, also when its payload
\* is malformed; the decode error is returned only for a record of the
\* expected kind, and exactly when its payload does not decode.
C20_CheckOrder ==
    cop \in DOMAIN Expects =>
        LET line == cout.line
            rec == from_str(line)
            want == Expects[cop]
        IN  /\ ~rec.ok => cout.err = "json"
            /\ (rec.ok /\ rec.val.kind # want.kind) => cout.err = want.other
            /\ (rec.ok /\ rec.val.kind = want.kind) =>
                   cout.err = IF Decodes(cop, rec.val.payload) THEN "none"
                              ELSE want.decode
            /\ cout.err = want.decode =>
                   (rec.ok /\ rec.val.kind = want.kind)

\* handle_prover, awaiting the commit, was handed a response whose payload is
\* one digit short, and returned the wrong-kind error.
C20_Witness ==
    /\ cop = "on_commit"
    /\ cout.line.json
    /\ cout.line.kind = "response"
    /\ Len(cout.line.payload) = 2 * EncLen - 1
    /\ ~point_from_hex(cout.line.payload).ok
    /\ cout.err = "Expected commit message"

====
